---- MODULE Spec2Model ----
(***************************************************************************)
(* server/pdf_generator.py: a configuration-driven PDF writer.  One run    *)
(* reads a JSON config, resolves a page size, draws the optional cover and *)
(* every page entry full-bleed onto its own page, saves the document and   *)
(* prints a result record.                                                 *)
(*                                                                         *)
(* Two specifications are given.  Spec is one run of the program           *)
(* (__main__ and generate_pdf, with load_image_from_path, add_image_to_page*)
(* and the canvas calls it makes).  GeomSpec applies get_page_size and the *)
(* arithmetic of add_image_to_page to every format and image size of the   *)
(* bounds.  Python floats are IEEE-754 doubles: every arithmetic result is *)
(* rounded to 53 significant bits, ties to even, and the model rounds the  *)
(* same way.                                                               *)
(***************************************************************************)
EXTENDS Integers, Sequences, FiniteSets, TLC

VARIABLES
    argv,         \* what the config text is: "invalid", "array", "object"
    config,       \* the dictionary the config text parses to
    pc,           \* position of the run
    page_size,    \* generate_pdf: (page_width, page_height), <<>> before line 130
    cover_done,   \* generate_pdf: the cover block (lines 140-146) has run
    i,            \* generate_pdf: number of page entries the loop has taken
    c,            \* the reportlab canvas
    file_size,    \* generate_pdf: os.path.getsize result, 0 before line 166
    result,       \* generate_pdf's return value, <<>> before it returns
    stdout,       \* records printed by line 198
    exit_status,  \* process exit status, -1 while running
    events,       \* calls made so far, in order
    geo           \* GeomSpec: one application of the page-size and placement arithmetic

vars == <<argv, config, pc, page_size, cover_done, i, c, file_size, result,
          stdout, exit_status, events, geo>>

(***************************************************************************)
(* Bounds                                                                  *)
(***************************************************************************)
MaxPages   == 2     \* longest pages list of a config
MaxImgDim  == 13    \* largest image width/height GeomSpec places
MaxFileSize == 1    \* largest byte size os.path.getsize reports

(***************************************************************************)
(* Python floats.  A double is [sgn, man, exp] with value                  *)
(* (-1)^sgn * man * 2^exp; man is a natural of exactly MantissaBits bits,  *)
(* kept as a little-endian sequence of limbs, or <<>> for zero.            *)
(***************************************************************************)
MantissaBits == 53
LimbBits == 16
Base == 2 ^ LimbBits

RECURSIVE Nat2Limbs(_)
Nat2Limbs(n) == IF n = 0 THEN <<>> ELSE <<n % Base>> \o Nat2Limbs(n \div Base)

RECURSIVE Trim(_)
Trim(b) == IF b = <<>> THEN <<>>
           ELSE IF b[Len(b)] = 0 THEN Trim(SubSeq(b, 1, Len(b) - 1)) ELSE b

SmallBitLen(n) == CHOOSE b \in 0..31 : n < 2 ^ b /\ (b = 0 \/ 2 ^ (b - 1) <= n)

BitLen(b) == IF b = <<>> THEN 0 ELSE LimbBits * (Len(b) - 1) + SmallBitLen(b[Len(b)])

RECURSIVE MulCarry(_, _, _)
MulCarry(b, k, carry) ==
    IF b = <<>> THEN Nat2Limbs(carry)
    ELSE LET t == Head(b) * k + carry
         IN <<t % Base>> \o MulCarry(Tail(b), k, t \div Base)

LimbsMul(b, k) == Trim(MulCarry(b, k, 0))

RECURSIVE DivStep(_, _)
DivStep(b, k) ==
    IF b = <<>> THEN [q |-> <<>>, r |-> 0]
    ELSE LET hi == DivStep(Tail(b), k)
             t  == Base * hi.r + Head(b)
         IN [q |-> <<t \div k>> \o hi.q, r |-> t % k]

LimbsDiv(b, k) == LET d == DivStep(b, k) IN [q |-> Trim(d.q), r |-> d.r]

ShiftLeft(b, n) ==
    IF b = <<>> THEN <<>>
    ELSE [j \in 1..(n \div LimbBits) |-> 0] \o LimbsMul(b, 2 ^ (n % LimbBits))

ShiftRight(b, n) ==
    LET q  == n \div LimbBits
        r  == n % LimbBits
        hi == SubSeq(b, q + 1, Len(b))
    IN Trim([j \in 1..Len(hi) |->
              (hi[j] \div 2 ^ r)
              + (IF j < Len(hi) THEN (hi[j + 1] % 2 ^ r) * 2 ^ (LimbBits - r) ELSE 0)])

\* bit j of b, bit 0 the least significant
Bit(b, j) == (b[j \div LimbBits + 1] \div 2 ^ (j % LimbBits)) % 2

\* some bit of b below bit j is set
LowBits(b, j) ==
    \/ \E k \in 1..(j \div LimbBits) : b[k] # 0
    \/ b[j \div LimbBits + 1] % 2 ^ (j % LimbBits) # 0

RECURSIVE LimbsLessFrom(_, _, _)
LimbsLessFrom(a, b, j) ==
    IF j = 0 THEN FALSE
    ELSE IF a[j] # b[j] THEN a[j] < b[j]
    ELSE LimbsLessFrom(a, b, j - 1)

LimbsLess(a, b) ==
    IF Len(a) # Len(b) THEN Len(a) < Len(b) ELSE LimbsLessFrom(a, b, Len(a))

RECURSIVE SubBorrow(_, _, _)
SubBorrow(a, b, borrow) ==
    IF a = <<>> THEN <<>>
    ELSE LET t == Head(a) - (IF b = <<>> THEN 0 ELSE Head(b)) - borrow
         IN <<t % Base>> \o SubBorrow(Tail(a), IF b = <<>> THEN <<>> ELSE Tail(b),
                                      IF t < 0 THEN 1 ELSE 0)

LimbsSub(a, b) == Trim(SubBorrow(a, b, 0))

LimbsInc(b) == MulCarry(b, 1, 1)

FZero == [sgn |-> 0, man |-> <<>>, exp |-> 0]

\* the double nearest to (-1)^sgn * (n + f) * 2^exp, ties to even, where
\* 0 <= f < 1 and f > 0 exactly when sticky
Round(sgn, n, exp, sticky) ==
    LET L == BitLen(n) IN
    IF L = 0 THEN FZero
    ELSE IF L <= MantissaBits
    THEN [sgn |-> sgn, man |-> ShiftLeft(n, MantissaBits - L),
          exp |-> exp - (MantissaBits - L)]
    ELSE LET d    == L - MantissaBits
             kept == ShiftRight(n, d)
             up   == /\ Bit(n, d - 1) = 1
                     /\ (sticky \/ LowBits(n, d - 1) \/ kept[1] % 2 = 1)
             m    == IF up THEN LimbsInc(kept) ELSE kept
         IN IF BitLen(m) > MantissaBits
            THEN [sgn |-> sgn, man |-> ShiftRight(m, 1), exp |-> exp + d + 1]
            ELSE [sgn |-> sgn, man |-> m, exp |-> exp + d]

\* float(n) for an int n >= 0
FromInt(n) == Round(0, Nat2Limbs(n), 0, FALSE)

\* a * k for a float a and an int k > 0
FMulInt(a, k) == Round(a.sgn, LimbsMul(a.man, k), a.exp, FALSE)

\* a / k for a float a and an int k > 0
FDivInt(a, k) ==
    LET s == SmallBitLen(k) + 1
        d == LimbsDiv(ShiftLeft(a.man, s), k)
    IN Round(a.sgn, d.q, a.exp - s, d.r # 0)

\* the float literal whose decimal value is n / k, k a power of ten
Literal(n, k) == FDivInt(FromInt(n), k)

\* the real number a - b, unrounded, for a, b >= 0
Diff(a, b) ==
    IF b.man = <<>> THEN [sgn |-> a.sgn, n |-> a.man, exp |-> a.exp]
    ELSE IF a.man = <<>> THEN [sgn |-> 1, n |-> b.man, exp |-> b.exp]
    ELSE LET e == IF a.exp < b.exp THEN a.exp ELSE b.exp
             A == ShiftLeft(a.man, a.exp - e)
             B == ShiftLeft(b.man, b.exp - e)
         IN IF LimbsLess(A, B) THEN [sgn |-> 1, n |-> LimbsSub(B, A), exp |-> e]
            ELSE [sgn |-> 0, n |-> LimbsSub(A, B), exp |-> e]

\* a - b for floats a, b >= 0
FSub(a, b) == LET d == Diff(a, b) IN Round(d.sgn, d.n, d.exp, FALSE)

\* a / 2
FHalf(a) == IF a.man = <<>> THEN a ELSE [a EXCEPT !.exp = @ - 1]

\* a < b for floats a, b >= 0
FLess(a, b) == LET d == Diff(a, b) IN d.sgn = 1 /\ d.n # <<>>

\* max(a, b): Python returns its first argument unless the second is greater
FMax(a, b) == IF FLess(a, b) THEN b ELSE a

(***************************************************************************)
(* PDF_FORMATS and get_page_size                                           *)
(***************************************************************************)
PointsPerInch == 72

PDF_FORMATS ==
    [f \in {"5.5x8.5", "7x7", "8x8", "6x9", "8x10",
            "5x8", "8.5x11", "8.5x8.5", "6.14x9.21", "8.25x6"} |->
       CASE f = "5.5x8.5"   -> <<Literal(55, 10), Literal(85, 10)>>
         [] f = "7x7"       -> <<FromInt(7), FromInt(7)>>
         [] f = "8x8"       -> <<FromInt(8), FromInt(8)>>
         [] f = "6x9"       -> <<FromInt(6), FromInt(9)>>
         [] f = "8x10"      -> <<FromInt(8), FromInt(10)>>
         [] f = "5x8"       -> <<FromInt(5), FromInt(8)>>
         [] f = "8.5x11"    -> <<Literal(85, 10), FromInt(11)>>
         [] f = "8.5x8.5"   -> <<Literal(85, 10), Literal(85, 10)>>
         [] f = "6.14x9.21" -> <<Literal(614, 100), Literal(921, 100)>>
         [] f = "8.25x6"    -> <<Literal(825, 100), FromInt(6)>>]

\* get_page_size falling back to letter, 8.5 x 11
get_page_size_letter(format_name) ==
    IF format_name \in DOMAIN PDF_FORMATS
    THEN <<FMulInt(PDF_FORMATS[format_name][1], PointsPerInch),
           FMulInt(PDF_FORMATS[format_name][2], PointsPerInch)>>
    ELSE <<FromInt(612), FromInt(792)>>

get_page_size(format_name) ==
    IF format_name \in DOMAIN PDF_FORMATS
    THEN <<FMulInt(PDF_FORMATS[format_name][1], PointsPerInch),
           FMulInt(PDF_FORMATS[format_name][2], PointsPerInch)>>
    ELSE <<FromInt(8 * PointsPerInch), FromInt(8 * PointsPerInch)>>

(***************************************************************************)
(* The arithmetic of add_image_to_page (lines 85-95)                       *)
(***************************************************************************)
Placement(img_width, img_height, page_width, page_height) ==
    LET scale_x       == FDivInt(page_width, img_width)
        scale_y       == FDivInt(page_height, img_height)
        scale         == FMax(scale_x, scale_y)
        scaled_width  == FMulInt(scale, img_width)
        scaled_height == FMulInt(scale, img_height)
    IN [scale_x |-> scale_x, scale_y |-> scale_y, scale |-> scale,
        scaled_width |-> scaled_width, scaled_height |-> scaled_height,
        x |-> FHalf(FSub(page_width, scaled_width)),
        y |-> FHalf(FSub(page_height, scaled_height))]

(***************************************************************************)
(* Values of a run                                                         *)
(***************************************************************************)
\* Python's None where only its truthiness is used (config.get, page.get)
Falsy == ""

None == [tag |-> "None"]

ImageReader(size, intact) == [tag |-> "ImageReader", size |-> size, intact |-> intact]

\* An image path is named by what it is: a path under objects/, a local path
\* with no file, a file PIL cannot open, a file PIL opens whose pixel data
\* cannot be read when it is drawn, or a sound image.
Sources == {"objects", "missing", "undecodable", "truncated", "ok"}

\* a format value a list or dict stands for: not hashable
Unhashable == "<list>"

FormatValues == DOMAIN PDF_FORMATS \cup {"A4", Unhashable}

\* a page entry: a dict with or without image_path, or a JSON string
PageEntries == [type : {"dict"}, image_path : Sources]
               \cup {[type |-> "dict"], [type |-> "str"]}

PageLists == UNION {[1..n -> PageEntries] : n \in 0..MaxPages}

ConfigKeys == {"output_path", "format", "cover_image", "pages"}

\* a key that a config does not have
Absent == "<absent>"

\* the dict with the given values; a list of pages is always given
Config(output_path, format, cover, page_list) ==
    [k \in {"pages"}
            \cup (IF output_path = Absent THEN {} ELSE {"output_path"})
            \cup (IF format = Absent THEN {} ELSE {"format"})
            \cup (IF cover = Absent THEN {} ELSE {"cover_image"}) |->
       CASE k = "output_path" -> output_path
         [] k = "format"      -> format
         [] k = "cover_image" -> cover
         [] k = "pages"       -> page_list]

Configs ==
    {Config(o, f, cv, pl) :
        o \in {"out.pdf", Absent}, f \in FormatValues \cup {Absent},
        cv \in Sources \cup {Absent}, pl \in PageLists}
    \cup {[k \in {"output_path"} |-> "out.pdf"]}

\* (width, height) of the image files a run finds on disk
ImageSizes == {<<13, 13>>}

\* d.get(key, default)
DictGet(d, key, default) == IF key \in DOMAIN d THEN d[key] ELSE default

Event(op, entry) == [op |-> op, entry |-> entry]

(***************************************************************************)
(* load_image_from_path; size is what the file at image_path holds         *)
(***************************************************************************)
load_image_from_path(image_path, size) ==
    IF image_path = "objects" THEN None
    ELSE IF image_path = "missing" THEN None
    ELSE IF image_path = "undecodable" THEN None   \* Image.open raises, line 66
    ELSE ImageReader(size, image_path # "truncated")

(***************************************************************************)
(* The canvas: code is what has been drawn on the current page, pages the  *)
(* pages closed by showPage, saved the number of completed saves.          *)
(***************************************************************************)
Canvas(filename, pagesize) ==
    [created |-> TRUE, filename |-> filename, pagesize |-> pagesize,
     code |-> <<>>, pages |-> <<>>, saved |-> 0]

NoCanvas ==
    [created |-> FALSE, filename |-> "", pagesize |-> <<>>,
     code |-> <<>>, pages |-> <<>>, saved |-> 0]

drawImage(cv, entry, image_reader, page_width, page_height) ==
    [cv EXCEPT !.code = Append(@, [entry |-> entry, size |-> image_reader.size,
                                   page |-> <<page_width, page_height>>])]

\* showPage putting the closed page in front of the document
showPage_front(cv, entry) ==
    [cv EXCEPT !.pages = <<[entry |-> entry, code |-> cv.code,
                            pagesize |-> cv.pagesize]>> \o @,
               !.code = <<>>]

showPage(cv, entry) ==
    [cv EXCEPT !.pages = Append(@, [entry |-> entry, code |-> cv.code,
                                    pagesize |-> cv.pagesize]),
               !.code = <<>>]

\* save that never completes the write
save_lost(cv) == cv

save(cv) == [cv EXCEPT !.saved = @ + 1]

\* the rectangle line 99 draws for a drawImage record of the canvas
DrawnRect(op) == Placement(op.size[1], op.size[2], op.page[1], op.page[2])

(***************************************************************************)
(* add_image_to_page: an image whose pixel data cannot be read makes       *)
(* drawImage raise; line 108 traps it and nothing has been drawn.          *)
(***************************************************************************)
add_image_to_page(cv, entry, image_reader, page_width, page_height) ==
    IF image_reader = None THEN cv
    ELSE IF ~image_reader.intact THEN cv
    ELSE drawImage(cv, entry, image_reader, page_width, page_height)

\* lines 143-146 and 157-160 without the test of img_reader
AddIfLoaded_unguarded(cv, entry, img_reader, page_width, page_height) ==
    showPage(add_image_to_page(cv, entry, img_reader, page_width, page_height),
             entry)

\* lines 143-146 and 157-160
AddIfLoaded(cv, entry, img_reader, page_width, page_height) ==
    IF img_reader # None
    THEN showPage(add_image_to_page(cv, entry, img_reader, page_width, page_height),
                  entry)
    ELSE cv

\* the calls lines 142-145 and 156-159 make, in order
CallsFor(entry, img_reader) ==
    <<Event("load", entry)>>
    \o (IF img_reader # None /\ img_reader.intact
        THEN <<Event("drawImage", entry)>> ELSE <<>>)
    \o (IF img_reader # None THEN <<Event("showPage", entry)>> ELSE <<>>)

(***************************************************************************)
(* generate_pdf                                                            *)
(***************************************************************************)
\* lines 124-130 reading output_path with config.get
ReadConfig_get(kind, cfg) ==
    IF kind = "array" THEN [raised |-> TRUE, error |-> "TypeError"]
    ELSE IF DictGet(cfg, "format", "8x8") = Unhashable
    THEN [raised |-> TRUE, error |-> "TypeError"]
    ELSE [raised |-> FALSE, error |-> "",
          output_path |-> DictGet(cfg, "output_path", Falsy),
          pdf_format |-> DictGet(cfg, "format", "8x8"),
          page_size |-> get_page_size(DictGet(cfg, "format", "8x8"))]

\* lines 124-130: the config values, or the exception reading them raises
ReadConfig(kind, cfg) ==
    IF kind = "array" THEN [raised |-> TRUE, error |-> "TypeError"]
    ELSE IF "output_path" \notin DOMAIN cfg
    THEN [raised |-> TRUE, error |-> "KeyError"]
    ELSE IF DictGet(cfg, "format", "8x8") = Unhashable
    THEN [raised |-> TRUE, error |-> "TypeError"]
    ELSE [raised |-> FALSE, error |-> "",
          output_path |-> cfg["output_path"],
          pdf_format |-> DictGet(cfg, "format", "8x8"),
          page_size |-> get_page_size(DictGet(cfg, "format", "8x8"))]

cover_image == DictGet(config, "cover_image", Falsy)
pages       == DictGet(config, "pages", <<>>)

\* lines 171-176
SuccessResult(output_path, size, page_list, cover) ==
    [success |-> TRUE, output_path |-> output_path, file_size |-> size,
     page_count |-> Len(page_list) + (IF cover # Falsy THEN 1 ELSE 0)]

\* lines 180-183
FailureResult(error) == [success |-> FALSE, error |-> error]

\* line 201 exiting 0 whatever the flag
ExitCode_zero(res) == IF res.success THEN 0 ELSE 0

\* line 201
ExitCode(res) == IF res.success THEN 0 ELSE 1

\* lines 178-183: the except clause returns the error record
Fail(error) ==
    /\ result' = <<FailureResult(error)>>
    /\ pc' = "print"

\* lines 186-193: read and parse the config
Main_load ==
    /\ pc = "main"
    /\ IF argv = "invalid"
       THEN /\ pc' = "exit"          \* json.loads raises: traceback, status 1
            /\ exit_status' = 1
       ELSE /\ pc' = "generate"
            /\ exit_status' = exit_status
    /\ UNCHANGED <<argv, config, page_size, cover_done, i, c, file_size, result,
                   stdout, events, geo>>

\* lines 123-137
Generate_open ==
    /\ pc = "generate"
    /\ LET r == ReadConfig(argv, config) IN
       IF r.raised
       THEN /\ Fail(r.error)
            /\ UNCHANGED <<page_size, c>>
       ELSE /\ page_size' = r.page_size
            /\ c' = Canvas(r.output_path, r.page_size)
            /\ pc' = "cover"
            /\ UNCHANGED result
    /\ UNCHANGED <<argv, config, cover_done, i, file_size, stdout, exit_status,
                   events, geo>>

AfterEntry(n) == IF n = Len(pages) THEN "save" ELSE "pages"

\* lines 139-146
Generate_cover ==
    /\ pc = "cover"
    /\ IF cover_image # Falsy
       THEN \E size \in ImageSizes :
              LET img_reader == load_image_from_path(cover_image, size) IN
              /\ c' = AddIfLoaded(c, 0, img_reader, page_size[1], page_size[2])
              /\ events' = events \o CallsFor(0, img_reader)
       ELSE UNCHANGED <<c, events>>
    /\ cover_done' = TRUE
    /\ pc' = AfterEntry(0)
    /\ UNCHANGED <<argv, config, page_size, i, file_size, result, stdout,
                   exit_status, geo>>

\* lines 149-160: one iteration of the loop
Generate_page ==
    /\ pc = "pages"
    /\ i < Len(pages)
    /\ LET page == pages[i + 1] IN
       IF page.type # "dict"
       THEN /\ Fail("AttributeError")          \* page.get, line 150
            /\ UNCHANGED <<i, c, events>>
       ELSE LET image_path == DictGet(page, "image_path", Falsy) IN
            /\ i' = i + 1
            /\ pc' = AfterEntry(i + 1)
            /\ UNCHANGED result
            /\ IF image_path = Falsy
               THEN UNCHANGED <<c, events>>
               ELSE \E size \in ImageSizes :
                      LET img_reader == load_image_from_path(image_path, size) IN
                      /\ c' = AddIfLoaded(c, i + 1, img_reader,
                                          page_size[1], page_size[2])
                      /\ events' = events \o CallsFor(i + 1, img_reader)
    /\ UNCHANGED <<argv, config, page_size, cover_done, file_size, stdout,
                   exit_status, geo>>

\* line 163: writing the file may fail
Generate_save ==
    /\ pc = "save"
    /\ events' = Append(events, Event("save", -1))
    /\ \E written \in BOOLEAN :
         IF written
         THEN /\ c' = save(c)
              /\ pc' = "stat"
              /\ UNCHANGED result
         ELSE /\ Fail("OSError")
              /\ UNCHANGED c
    /\ UNCHANGED <<argv, config, page_size, cover_done, i, file_size, stdout,
                   exit_status, geo>>

\* lines 165-176
Generate_return ==
    /\ pc = "stat"
    /\ \E size \in 1..MaxFileSize :
         /\ file_size' = size
         /\ result' = <<SuccessResult(c.filename, size, pages, cover_image)>>
    /\ events' = Append(events, Event("getsize", -1))
    /\ pc' = "print"
    /\ UNCHANGED <<argv, config, page_size, cover_done, i, c, stdout,
                   exit_status, geo>>

\* lines 195-201
Main_exit ==
    /\ pc = "print"
    /\ stdout' = Append(stdout, result[1])
    /\ exit_status' = ExitCode(result[1])
    /\ pc' = "exit"
    /\ UNCHANGED <<argv, config, page_size, cover_done, i, c, file_size, result,
                   events, geo>>

GeoIdle == [pc |-> "idle"]

Init ==
    /\ argv \in {"invalid", "array", "object"}
    /\ config \in IF argv = "object" THEN Configs ELSE {[k \in {} |-> ""]}
    /\ pc = "main"
    /\ page_size = <<>>
    /\ cover_done = FALSE
    /\ i = 0
    /\ c = NoCanvas
    /\ file_size = 0
    /\ result = <<>>
    /\ stdout = <<>>
    /\ exit_status = -1
    /\ events = <<>>
    /\ geo = GeoIdle

Next ==
    \/ Main_load
    \/ Generate_open
    \/ Generate_cover
    \/ Generate_page
    \/ Generate_save
    \/ Generate_return
    \/ Main_exit

Spec == Init /\ [][Next]_vars

(***************************************************************************)
(* GeomSpec: get_page_size and the placement arithmetic on every format    *)
(* name and every image size of the bounds                                 *)
(***************************************************************************)
GeoInit ==
    /\ geo \in [pc : {"size"}, format_name : FormatValues \ {Unhashable},
                img_width : 1..MaxImgDim, img_height : 1..MaxImgDim]
    /\ argv = "object"
    /\ config = [k \in {} |-> ""]
    /\ pc = "idle"
    /\ page_size = <<>>
    /\ cover_done = FALSE
    /\ i = 0
    /\ c = NoCanvas
    /\ file_size = 0
    /\ result = <<>>
    /\ stdout = <<>>
    /\ exit_status = -1
    /\ events = <<>>

\* line 130
GeoPageSize ==
    /\ geo.pc = "size"
    /\ page_size' = get_page_size(geo.format_name)
    /\ geo' = [geo EXCEPT !.pc = "place"]
    /\ UNCHANGED <<argv, config, pc, cover_done, i, c, file_size, result, stdout,
                   exit_status, events>>

\* lines 81-95
GeoPlace ==
    /\ geo.pc = "place"
    /\ geo' = [pc |-> "placed", format_name |-> geo.format_name,
               img_width |-> geo.img_width, img_height |-> geo.img_height,
               at |-> Placement(geo.img_width, geo.img_height,
                                page_size[1], page_size[2])]
    /\ UNCHANGED <<argv, config, pc, page_size, cover_done, i, c, file_size,
                   result, stdout, exit_status, events>>

GeoNext == GeoPageSize \/ GeoPlace

GeomSpec == GeoInit /\ [][GeoNext]_vars

(***************************************************************************)
(* Vocabulary of the properties                                            *)
(***************************************************************************)
Returned == result # <<>>
Succeeded == Returned /\ result[1].success
Failed == Returned /\ ~result[1].success

\* entry 0 is the cover, entry k > 0 is pages[k]
SourceOf(entry) ==
    IF entry = 0 THEN cover_image
    ELSE IF pages[entry].type = "dict"
         THEN DictGet(pages[entry], "image_path", Falsy)
         ELSE Falsy

\* sources load_image_from_path gives None for
Unloadable == {"objects", "missing", "undecodable"}

\* entries whose block has run
Processed == (IF cover_done THEN {0} ELSE {}) \cup 1..i

EmittedEntries == [k \in 1..Len(c.pages) |-> c.pages[k].entry]

OpsOf(op) == {k \in 1..Len(events) : events[k].op = op}

EntriesOf(op) == {events[k].entry : k \in OpsOf(op)}

RECURSIVE LoadedUpTo(_)
LoadedUpTo(n) ==
    IF n = 0 THEN <<>>
    ELSE LoadedUpTo(n - 1)
         \o (IF SourceOf(n) \in {"ok", "truncated"} THEN <<n>> ELSE <<>>)

SuccessKeys == {"success", "output_path", "file_size", "page_count"}
FailureKeys == {"success", "error"}

IsResultRecord(r) ==
    \/ r.success /\ DOMAIN r = SuccessKeys
    \/ ~r.success /\ DOMAIN r = FailureKeys

\* reals: a float is <= 0
NonPositive(a) == a.man = <<>> \/ a.sgn = 1
IsZero(a) == a.man = <<>>

\* reals: |p| < |q| for dyadics p = n * 2^exp
MagLess(pn, pexp, qn, qexp) ==
    LET e == IF pexp < qexp THEN pexp ELSE qexp
    IN LimbsLess(ShiftLeft(pn, pexp - e), ShiftLeft(qn, qexp - e))

\* reals: a float equals the dyadic d
SameReal(a, d) ==
    IF a.man = <<>> \/ d.n = <<>> THEN a.man = <<>> /\ d.n = <<>>
    ELSE /\ a.sgn = d.sgn
         /\ ~MagLess(a.man, a.exp, d.n, d.exp)
         /\ ~MagLess(d.n, d.exp, a.man, a.exp)

(***************************************************************************)
(* C1: when generate_pdf returns success, page_count is the number of      *)
(* pages emitted into the document (the number of showPage calls).         *)
(***************************************************************************)
C1_PageCountIsPagesEmitted ==
    Succeeded =>
      /\ result[1].page_count = Len(c.pages)
      /\ result[1].page_count = Cardinality(OpsOf("showPage"))

(***************************************************************************)
(* C2: for every positive image and page size the scale is the larger of   *)
(* page_width/img_width and page_height/img_height, the scaled image is at *)
(* least as wide and as high as the page, and the drawn rectangle          *)
(* [x, x+scaled_width] x [y, y+scaled_height] contains the page.           *)
(***************************************************************************)
C2_ScaledImageCoversPage ==
    geo.pc = "placed" =>
      LET a  == geo.at
          pw == page_size[1]
          ph == page_size[2]
          over_w == Diff(a.scaled_width, pw)
          over_h == Diff(a.scaled_height, ph)
      IN /\ a.scale_x = FDivInt(pw, geo.img_width)
         /\ a.scale_y = FDivInt(ph, geo.img_height)
         /\ a.scale \in {a.scale_x, a.scale_y}
         /\ ~FLess(a.scale, a.scale_x) /\ ~FLess(a.scale, a.scale_y)
         /\ ~FLess(a.scaled_width, pw)
         /\ ~FLess(a.scaled_height, ph)
         /\ NonPositive(a.x) /\ NonPositive(a.y)
         /\ ~MagLess(over_w.n, over_w.exp, a.x.man, a.x.exp)
         /\ ~MagLess(over_h.n, over_h.exp, a.y.man, a.y.exp)

(***************************************************************************)
(* C3: every run ends with exactly one result record printed, of the       *)
(* success shape or of the failure shape, and exits 0 exactly when the     *)
(* success flag is true.                                                   *)
(***************************************************************************)
C3_EveryRunPrintsOneRecord ==
    pc = "exit" =>
      /\ Len(stdout) = 1
      /\ IsResultRecord(stdout[1])
      /\ stdout = result
      /\ stdout[1].success <=> file_size > 0
      /\ exit_status = 0 <=> stdout[1].success
      /\ exit_status \in {0, 1}

(***************************************************************************)
(* C3 amended: every run whose config text parses as JSON ends with        *)
(* exactly one result record printed, of the success shape when generation *)
(* completed and of the failure shape when generate_pdf raised, and exits  *)
(* 0 exactly when the flag is true; a run whose config text is not JSON    *)
(* prints no record and exits 1.                                           *)
(***************************************************************************)
C3_ParsedRunPrintsOneRecord ==
    pc = "exit" =>
      IF argv = "invalid"
      THEN stdout = <<>> /\ exit_status = 1
      ELSE /\ Len(stdout) = 1
           /\ IsResultRecord(stdout[1])
           /\ stdout = result
           /\ stdout[1].success <=> file_size > 0
           /\ exit_status = 0 <=> stdout[1].success
           /\ exit_status \in {0, 1}

C3_Witness ==
    /\ pc = "exit"
    /\ argv = "object"
    /\ c.created
    /\ Len(stdout) = 1
    /\ ~stdout[1].success
    /\ exit_status = 1

(***************************************************************************)
(* C4: a source that is under objects/, missing or undecodable loads as    *)
(* None: no page is emitted for it, the entries after it are still         *)
(* processed, and it never makes the run fail: a run whose config reads    *)
(* and whose page entries are all dicts fails only when the save fails.    *)
(***************************************************************************)
C4_SkipAndContinue ==
    /\ \A e \in Processed :
         SourceOf(e) \in Unloadable =>
           /\ e \in EntriesOf("load")
           /\ e \notin EntriesOf("showPage")
           /\ e \notin EntriesOf("drawImage")
           /\ \A k \in 1..Len(c.pages) : c.pages[k].entry # e
    /\ (c.created /\ \A k \in 1..Len(pages) : pages[k].type = "dict") =>
         /\ Failed => result[1].error = "OSError" /\ OpsOf("save") # {}
         /\ OpsOf("save") # {} => cover_done /\ i = Len(pages)
         /\ pc \in {"cover", "pages", "save", "stat", "print", "exit"}
         /\ pc = "pages" => i < Len(pages)

C4_Witness ==
    /\ Succeeded
    /\ \E e \in Processed : \E later \in Processed :
         /\ e < later
         /\ SourceOf(e) \in Unloadable
         /\ later \in EntriesOf("showPage")

(***************************************************************************)
(* C5: get_page_size gives (width*72, height*72) for a name of PDF_FORMATS *)
(* and (576, 576) for every other name, a missing format key counting as   *)
(* '8x8'; the canvas, every page and every drawing of a run use the size   *)
(* resolved for the run's format.                                          *)
(***************************************************************************)
C5_Table ==
    /\ \A f \in DOMAIN PDF_FORMATS :
         get_page_size(f) = <<FMulInt(PDF_FORMATS[f][1], 72),
                              FMulInt(PDF_FORMATS[f][2], 72)>>
    /\ \A f \in (FormatValues \ {Unhashable}) \ DOMAIN PDF_FORMATS :
         get_page_size(f) = <<FromInt(576), FromInt(576)>>
    /\ get_page_size("8x8") = <<FromInt(576), FromInt(576)>>
    /\ get_page_size("8.5x11") = <<FromInt(612), FromInt(792)>>

ResolvedSize ==
    [f \in FormatValues |->
       IF f \in DOMAIN PDF_FORMATS
       THEN <<FMulInt(PDF_FORMATS[f][1], 72), FMulInt(PDF_FORMATS[f][2], 72)>>
       ELSE <<FromInt(576), FromInt(576)>>]

C5_PageSizeResolution ==
    /\ C5_Table
    /\ page_size # <<>> =>
         /\ page_size = ResolvedSize[DictGet(config, "format", "8x8")]
         /\ c.created /\ c.pagesize = page_size
         /\ \A k \in 1..Len(c.pages) :
              /\ c.pages[k].pagesize = page_size
              /\ \A j \in 1..Len(c.pages[k].code) :
                   c.pages[k].code[j].page = page_size

C5_Witness ==
    /\ pc = "save"
    /\ "format" \notin DOMAIN config
    /\ Len(c.pages) >= 2
    /\ page_size = <<FromInt(576), FromInt(576)>>

(***************************************************************************)
(* C6: the pages of the document are the cover, if configured and          *)
(* loadable, followed by the loadable page entries in the order of the     *)
(* pages list; no image is drawn twice, and each is drawn on its own page. *)
(***************************************************************************)
C6_PageOrder ==
    c.created =>
      /\ EmittedEntries =
           (IF cover_done /\ SourceOf(0) \in {"ok", "truncated"}
            THEN <<0>> ELSE <<>>) \o LoadedUpTo(i)
      /\ \A k \in 1..Len(c.pages) : \A j \in 1..Len(c.pages[k].code) :
           c.pages[k].code[j].entry = c.pages[k].entry
      /\ \A k, j \in OpsOf("drawImage") : events[k].entry = events[j].entry => k = j
      /\ \A k, j \in OpsOf("showPage") : k < j => events[k].entry < events[j].entry

C6_Witness ==
    /\ pc = "save"
    /\ Len(pages) = 2
    /\ EmittedEntries = <<0, 2>>

(***************************************************************************)
(* C7: the placement offsets are both <= 0, at least one of them is        *)
(* exactly 0, and the overhang is the same on opposite sides:              *)
(* x + scaled_width - page_width = -x, and likewise for y.                 *)
(***************************************************************************)
C7_CenteredCropOnly ==
    geo.pc = "placed" =>
      LET a == geo.at IN
      /\ NonPositive(a.x) /\ NonPositive(a.y)
      /\ IsZero(a.x) \/ IsZero(a.y)
      /\ SameReal([a.x EXCEPT !.exp = @ + 1], Diff(page_size[1], a.scaled_width))
      /\ SameReal([a.y EXCEPT !.exp = @ + 1], Diff(page_size[2], a.scaled_height))

(***************************************************************************)
(* C8: a successful run saves the document exactly once, after the cover   *)
(* and every page entry have been processed; the file size is measured     *)
(* only after the save; nothing is loaded or drawn after the save; a run   *)
(* that fails reports neither file_size nor page_count.                    *)
(***************************************************************************)
C8_FinalizationOrder ==
    /\ c.saved <= 1
    /\ Cardinality(OpsOf("save")) <= 1
    /\ \A k \in OpsOf("save") :
         /\ cover_done /\ i = Len(pages)
         /\ \A j \in 1..Len(events) : j > k => events[j].op = "getsize"
    /\ \A k \in OpsOf("getsize") :
         /\ c.saved = 1
         /\ \E j \in OpsOf("save") : j < k
    /\ file_size > 0 => c.saved = 1 /\ OpsOf("getsize") # {}
    /\ Succeeded =>
         /\ c.saved = 1
         /\ Cardinality(OpsOf("getsize")) = 1
         /\ result[1].file_size = file_size
    /\ Failed => DOMAIN result[1] = FailureKeys /\ file_size = 0

C8_Witness ==
    /\ pc = "exit"
    /\ Succeeded
    /\ Len(c.pages) >= 2
    /\ c.saved = 1

(***************************************************************************)
(* C9: every page emitted into the document carries exactly one drawn      *)
(* image; no blank page is emitted for an image whose drawing failed.      *)
(***************************************************************************)
C9_EveryPageCarriesOneImage ==
    \A k \in 1..Len(c.pages) : Len(c.pages[k].code) = 1

(***************************************************************************)
(* C10: generate_pdf returns a record for every config: a config without   *)
(* output_path or with a page entry that is not a dict yields the failure  *)
(* record, and when output_path is missing no canvas is created and no     *)
(* image is loaded or drawn.                                               *)
(***************************************************************************)
C10_NoExceptionEscapes ==
    /\ (pc \in {"print", "exit"} /\ argv # "invalid") =>
         Returned /\ IsResultRecord(result[1])
    /\ (argv = "object" /\ "output_path" \notin DOMAIN config) =>
         /\ ~c.created
         /\ events = <<>>
         /\ page_size = <<>>
         /\ pc \in {"print", "exit"} => result = <<FailureResult("KeyError")>>
    /\ (pc \in {"print", "exit"} /\ c.created
          /\ \E k \in 1..Len(pages) : pages[k].type # "dict") =>
         /\ result = <<FailureResult("AttributeError")>>
         /\ pages[i + 1].type # "dict"
         /\ c.saved = 0

C10_Witness ==
    /\ pc = "exit"
    /\ argv = "object"
    /\ "output_path" \notin DOMAIN config
    /\ cover_image # Falsy
    /\ Len(pages) > 0
    /\ stdout = <<FailureResult("KeyError")>>
====
